---- MODULE Spec2Model ----
(***************************************************************************)
(* kafka.server.ZkMetadataCache (MetadataCache.scala): the broker's cache  *)
(* of cluster metadata.  A volatile reference holds an immutable           *)
(* MetadataSnapshot; updateMetadata merges an UpdateMetadataRequest into a *)
(* new snapshot under the write lock, the queries read the reference once  *)
(* and compute from that snapshot without any lock.                        *)
(***************************************************************************)
EXTENDS Integers, Sequences, FiniteSets, TLC

----------------------------------------------------------------------------
(* Values                                                                  *)

\* LeaderAndIsr.LeaderDuringDelete, the leader of a partition being deleted
LeaderDuringDelete == -2
\* MetadataResponse.NO_LEADER_ID
NO_LEADER_ID == -1
\* Uuid.ZERO_UUID
ZERO_UUID == "zero"

\* Option: None is the empty sequence, Some(x) the one-element sequence
None == <<>>
Some(x) == <<x>>

\* a map is a function; the empty map is the function of empty domain
EmptyMap == <<>>
Put(m, k, v) == [x \in (DOMAIN m) \cup {k} |-> IF x = k THEN v ELSE m[x]]
Remove(m, k) == [x \in (DOMAIN m) \ {k} |-> m[x]]
\* m1 ++ m2 : the entries of m2 override those of m1
PutAll(m1, m2) ==
  [x \in (DOMAIN m1) \cup (DOMAIN m2) |-> IF x \in DOMAIN m2 THEN m2[x] ELSE m1[x]]

Range(s) == {s[i] : i \in DOMAIN s}
Max(S) == CHOOSE x \in S : \A y \in S : y <= x
Min(S) == CHOOSE x \in S : \A y \in S : x <= y

\* a java.util.List filtered by a predicate given as a set, order kept
RECURSIVE FilterSeq(_, _)
FilterSeq(s, keep) ==
  IF s = <<>> THEN <<>>
  ELSE IF Head(s) \in keep THEN <<Head(s)>> \o FilterSeq(Tail(s), keep)
       ELSE FilterSeq(Tail(s), keep)

NoRack == "null"
\* org.apache.kafka.common.Node
Node(id, host, port, rack) == [id |-> id, host |-> host, port |-> port, rack |-> rack]
\* Node.noNode
NoNode == Node(-1, "", -1, NoRack)
\* Node.isEmpty
NodeIsEmpty(n) == n.host = "" \/ n.port < 0

----------------------------------------------------------------------------
(* State                                                                   *)

Writers == {"w1", "w2"}
Readers == {"r1"}
NoWriter == "none"

\* the mutable.AnyRefMap objects that can be live at once: the one of the visible
\* snapshot, one per reader holding an older snapshot, one per merge in progress
MapIds == 1..(1 + Cardinality(Readers) + Cardinality(Writers))

VARIABLES
  metadataSnapshot,  \* the volatile var: the visible MetadataSnapshot
  maps,              \* the partitionStates objects, by reference
  lock,              \* the holder of the write lock of partitionMetadataLock
  wr,                \* each updateMetadata caller: position and locals
  rd,                \* each query caller: position and locals
  pubContent,        \* the content of the visible snapshot when it was published
  pubBy              \* the caller that published the visible snapshot

vars == <<metadataSnapshot, maps, lock, wr, rd, pubContent, pubBy>>

----------------------------------------------------------------------------
(* The message: UpdateMetadataRequest                                      *)

Topics == {"orders", "logs"}
Partitions == {0, 1}
ListenerNames == {"plain", "ssl"}

\* UpdateMetadataEndpoint
EP(l, h, p) == [listener |-> l, host |-> h, port |-> p]
\* UpdateMetadataBroker
LiveBroker(id, eps, rack) == [id |-> id, endpoints |-> eps, rack |-> rack]
\* UpdateMetadataPartitionState
PState(t, p, leader, epoch, replicas, isr, offline) ==
  [topicName |-> t, partitionIndex |-> p, leader |-> leader, leaderEpoch |-> epoch,
   replicas |-> replicas, isr |-> isr, offlineReplicas |-> offline]
\* UpdateMetadataTopicState
TState(t, id) == [topicName |-> t, topicId |-> id]
\* UpdateMetadataRequest: controllerId, controllerEpoch, liveBrokers, topicStates(),
\* partitionStates
Request(c, epoch, brokers, tstates, pstates) ==
  [controllerId |-> c, controllerEpoch |-> epoch, liveBrokers |-> brokers,
   topicStates |-> tstates, partitionStates |-> pstates]

TP(t, p) == <<t, p>>

----------------------------------------------------------------------------
(* updateMetadata: the pieces of the merge                                 *)

\* the last endpoint of the list that names the listener
LastEndpoint(eps, l) == eps[Max({i \in DOMAIN eps : eps[i].listener = l})]

\* the last broker of the list that has the id
LastBroker(brokers, id) == brokers[Max({i \in DOMAIN brokers : brokers[i].id = id})]

\* the last topic state of the list that names the topic
LastTopicState(tstates, t) == tstates[Max({i \in DOMAIN tstates : tstates[i].topicName = t})]

\* lines 383-389: nodes.put(listenerName, new Node(broker.id, ep.host, ep.port)),
\* in list order, so the last endpoint of a listener stays
NodesByListener(broker) ==
  [l \in {broker.endpoints[i].listener : i \in DOMAIN broker.endpoints} |->
     LET ep == LastEndpoint(broker.endpoints, l)
     IN  Node(broker.id, ep.host, ep.port, NoRack)]

\* line 391: Broker(broker.id, endPoints, Option(broker.rack))
Broker(broker) == [id |-> broker.id, endPoints |-> broker.endpoints, rack |-> broker.rack]

\* the brokers of the request added to those of the visible snapshot
BuildAliveBrokers_merge(request) ==
  PutAll(metadataSnapshot.aliveBrokers,
         [id \in {request.liveBrokers[i].id : i \in DOMAIN request.liveBrokers} |->
            Broker(LastBroker(request.liveBrokers, id))])

\* lines 371, 379-393: aliveBrokers is built from the liveBrokers of the request alone
BuildAliveBrokers(request) ==
  [id \in {request.liveBrokers[i].id : i \in DOMAIN request.liveBrokers} |->
     Broker(LastBroker(request.liveBrokers, id))]

\* a request without liveBrokers keeps the aliveNodes of the visible snapshot
BuildAliveNodes_keepPrevious(request) ==
  IF request.liveBrokers = <<>> THEN metadataSnapshot.aliveNodes
  ELSE [id \in {request.liveBrokers[i].id : i \in DOMAIN request.liveBrokers} |->
          NodesByListener(LastBroker(request.liveBrokers, id))]

\* the node of the first endpoint of each broker alone
BuildAliveNodes_firstEndpoint(request) ==
  [id \in {request.liveBrokers[i].id : i \in DOMAIN request.liveBrokers} |->
     LET broker == LastBroker(request.liveBrokers, id)
         ep == broker.endpoints[1]
     IN  [l \in {ep.listener} |-> Node(id, ep.host, ep.port, NoRack)]]

\* lines 372, 379-393: aliveNodes is built from the liveBrokers of the request alone
BuildAliveNodes(request) ==
  [id \in {request.liveBrokers[i].id : i \in DOMAIN request.liveBrokers} |->
     NodesByListener(LastBroker(request.liveBrokers, id))]

\* a negative controller id keeps the controller of the visible snapshot
ControllerIdOpt_keepKnown(request) ==
  IF request.controllerId < 0 THEN metadataSnapshot.controllerId
  ELSE Some(request.controllerId)

\* lines 373-376; the controllerEpoch of the request is read for the log
\* messages alone (line 421)
ControllerIdOpt(request) ==
  IF request.controllerId < 0 THEN None ELSE Some(request.controllerId)

\* lines 400-402: the (name, id) pairs with a non-zero id, as a map
NewTopicIds(request) ==
  LET named == FilterSeq(request.topicStates,
                         {ts \in Range(request.topicStates) : ts.topicId # ZERO_UUID})
  IN  [t \in {named[i].topicName : i \in DOMAIN named} |-> LastTopicState(named, t).topicId]

\* the ids of the request are kept for the topics the cache holds only
MergeTopicIds_knownOnly(oldTopicIds, request) ==
  PutAll(oldTopicIds,
         [t \in DOMAIN NewTopicIds(request) \cap DOMAIN maps[metadataSnapshot.partitionStates] |->
            NewTopicIds(request)[t]])

\* the ids of the snapshot kept over those of the request
MergeTopicIds_keepOld(oldTopicIds, request) == PutAll(NewTopicIds(request), oldTopicIds)

\* the ids of the request in place of those of the snapshot
MergeTopicIds_newOnly(oldTopicIds, request) == NewTopicIds(request)

\* lines 403-405
MergeTopicIds(oldTopicIds, request) == PutAll(oldTopicIds, NewTopicIds(request))

\* the partition removed, the topic left with no partition
removePartitionInfo_keepTopic(w, topic, partitionId) ==
  IF topic \in DOMAIN w.partitionStates
  THEN [w EXCEPT !.partitionStates = Put(@, topic, Remove(w.partitionStates[topic], partitionId))]
  ELSE w

\* the topic removed with its last partition, a partition of a larger topic left
removePartitionInfo_lastOnly(w, topic, partitionId) ==
  IF topic \in DOMAIN w.partitionStates
  THEN IF DOMAIN Remove(w.partitionStates[topic], partitionId) = {}
       THEN [w EXCEPT !.partitionStates = Remove(@, topic), !.topicIds = Remove(@, topic)]
       ELSE w
  ELSE w

\* the topic removed with its last partition, its id left in topicIds
removePartitionInfo_keepId(w, topic, partitionId) ==
  IF topic \in DOMAIN w.partitionStates
  THEN LET infos == Remove(w.partitionStates[topic], partitionId)
       IN  IF DOMAIN infos = {}
           THEN [w EXCEPT !.partitionStates = Remove(@, topic)]
           ELSE [w EXCEPT !.partitionStates = Put(@, topic, infos)]
  ELSE w

\* lines 455-465; w is the working state of the merge:
\* partitionStates and topicIds (both mutable) and deletedPartitions
removePartitionInfo(w, topic, partitionId) ==
  IF topic \in DOMAIN w.partitionStates
  THEN LET infos == Remove(w.partitionStates[topic], partitionId)
       IN  IF DOMAIN infos = {}
           THEN [w EXCEPT !.partitionStates = Remove(@, topic),
                          !.topicIds = Remove(@, topic)]
           ELSE [w EXCEPT !.partitionStates = Put(@, topic, infos)]
  ELSE w

\* the partitions of the topic replaced by the one of the entry
addOrUpdatePartitionInfo_newInfos(w, topic, partitionId, stateInfo) ==
  [w EXCEPT !.partitionStates = Put(@, topic, Put(EmptyMap, partitionId, stateInfo))]

\* an entry with a lower leader epoch than the state of the cache is ignored
addOrUpdatePartitionInfo_ifNewer(w, topic, partitionId, stateInfo) ==
  LET infos == IF topic \in DOMAIN w.partitionStates
               THEN w.partitionStates[topic] ELSE EmptyMap
  IN  IF partitionId \in DOMAIN infos /\ stateInfo.leaderEpoch < infos[partitionId].leaderEpoch
      THEN w
      ELSE [w EXCEPT !.partitionStates = Put(@, topic, Put(infos, partitionId, stateInfo))]

\* lines 286-292
addOrUpdatePartitionInfo(w, topic, partitionId, stateInfo) ==
  LET infos == IF topic \in DOMAIN w.partitionStates
               THEN w.partitionStates[topic] ELSE EmptyMap
  IN  [w EXCEPT !.partitionStates = Put(@, topic, Put(infos, partitionId, stateInfo))]

\* a deletion reported only when the partition was in the cache
ApplyState_ifRemoved(w, state) ==
  IF state.leader = LeaderDuringDelete
  THEN IF state.topicName \in DOMAIN w.partitionStates
          /\ state.partitionIndex \in DOMAIN w.partitionStates[state.topicName]
       THEN [removePartitionInfo(w, state.topicName, state.partitionIndex)
               EXCEPT !.deletedPartitions = Append(@, TP(state.topicName, state.partitionIndex))]
       ELSE w
  ELSE addOrUpdatePartitionInfo(w, state.topicName, state.partitionIndex, state)

\* an entry with the delete sentinel stored as the state of the partition
ApplyState_storeSentinel(w, state) ==
  IF state.leader = LeaderDuringDelete
  THEN [addOrUpdatePartitionInfo(w, state.topicName, state.partitionIndex, state)
          EXCEPT !.deletedPartitions = Append(@, TP(state.topicName, state.partitionIndex))]
  ELSE addOrUpdatePartitionInfo(w, state.topicName, state.partitionIndex, state)

\* lines 425-437: one entry of the request
ApplyState(w, state) ==
  IF state.leader = LeaderDuringDelete
  THEN [removePartitionInfo(w, state.topicName, state.partitionIndex)
          EXCEPT !.deletedPartitions = Append(@, TP(state.topicName, state.partitionIndex))]
  ELSE addOrUpdatePartitionInfo(w, state.topicName, state.partitionIndex, state)

\* the entries applied from the last one to the first
RECURSIVE ApplyStates_reversed(_, _)
ApplyStates_reversed(w, states) ==
  IF states = <<>> THEN w
  ELSE ApplyState(ApplyStates_reversed(w, Tail(states)), Head(states))

\* line 423: newStates.foreach, in list order
RECURSIVE ApplyStates(_, _)
ApplyStates(w, states) ==
  IF states = <<>> THEN w
  ELSE ApplyStates(ApplyState(w, Head(states)), Tail(states))

----------------------------------------------------------------------------
(* The queries, computed from one snapshot s whose partitionStates has     *)
(* been read                                                               *)

\* lines 264-266 and 254-256
getAllTopics(s) == DOMAIN s.partitionStates

\* lines 258-262
getAllPartitions(s) ==
  UNION {{TP(t, p) : p \in DOMAIN s.partitionStates[t]} : t \in DOMAIN s.partitionStates}

\* lines 274-276
getNonExistingTopics(s, topics) == topics \ DOMAIN s.partitionStates

\* lines 294-296
getPartitionInfo(s, topic, partitionId) ==
  IF topic \in DOMAIN s.partitionStates /\ partitionId \in DOMAIN s.partitionStates[topic]
  THEN Some(s.partitionStates[topic][partitionId])
  ELSE None

\* lines 449-451
contains(s, topic) == topic \in DOMAIN s.partitionStates

\* line 453
containsPartition(s, tp) == getPartitionInfo(s, tp[1], tp[2]) # None

\* line 337
getControllerId(s) == s.controllerId

\* kafka.cluster.Broker.getNode: the endpoint of the listener as a Node with the rack
BrokerGetNode(broker, listenerName) ==
  IF \E i \in DOMAIN broker.endPoints : broker.endPoints[i].listener = listenerName
  THEN LET ep == LastEndpoint(broker.endPoints, listenerName)
       IN  Some(Node(broker.id, ep.host, ep.port, broker.rack))
  ELSE None

\* kafka.server.metadata.MetadataBroker.apply(Broker)
MetadataBroker(broker) ==
  [id |-> broker.id, rack |-> broker.rack,
   endpoints |-> [l \in {broker.endPoints[i].listener : i \in DOMAIN broker.endPoints} |->
                    BrokerGetNode(broker, l)[1]]]

\* lines 282-284
getAliveBrokers(s) == {MetadataBroker(s.aliveBrokers[id]) : id \in DOMAIN s.aliveBrokers}

\* lines 278-280
getAliveBroker(s, brokerId) ==
  IF brokerId \in DOMAIN s.aliveBrokers THEN Some(MetadataBroker(s.aliveBrokers[brokerId]))
  ELSE None

\* lines 222-224
hasAliveEndpoint(s, brokerId, listenerName) ==
  brokerId \in DOMAIN s.aliveNodes /\ listenerName \in DOMAIN s.aliveNodes[brokerId]

\* lines 232-234
getAliveEndpoint(s, brokerId, listenerName) ==
  IF hasAliveEndpoint(s, brokerId, listenerName)
  THEN Some(s.aliveNodes[brokerId][listenerName]) ELSE None

\* no result for a partition whose leader is not alive
getPartitionLeaderEndpoint_noneWhenDead(s, topic, partitionId, listenerName) ==
  LET info == getPartitionInfo(s, topic, partitionId)
  IN  IF info = None THEN None
      ELSE LET leaderId == info[1].leader
           IN  IF leaderId \in DOMAIN s.aliveNodes
               THEN IF listenerName \in DOMAIN s.aliveNodes[leaderId]
                    THEN Some(s.aliveNodes[leaderId][listenerName])
                    ELSE Some(NoNode)
               ELSE None

\* lines 305-317
getPartitionLeaderEndpoint(s, topic, partitionId, listenerName) ==
  LET info == getPartitionInfo(s, topic, partitionId)
  IN  IF info = None THEN None
      ELSE LET leaderId == info[1].leader
           IN  IF leaderId \in DOMAIN s.aliveNodes
               THEN IF listenerName \in DOMAIN s.aliveNodes[leaderId]
                    THEN Some(s.aliveNodes[leaderId][listenerName])
                    ELSE Some(NoNode)
               ELSE Some(NoNode)

\* lines 324-330: the node of one replica, Node.noNode when it has none
ReplicaNode(s, replicaId, listenerName) ==
  IF replicaId \in DOMAIN s.aliveBrokers
  THEN LET n == BrokerGetNode(s.aliveBrokers[replicaId], listenerName)
       IN  IF n = None THEN NoNode ELSE n[1]
  ELSE NoNode

\* every replica is a key, one without node mapped to Node.noNode
getPartitionReplicaEndpoints_keepEmpty(s, tp, listenerName) ==
  LET info == getPartitionInfo(s, tp[1], tp[2])
  IN  IF info = None THEN EmptyMap
      ELSE [id \in Range(info[1].replicas) |-> ReplicaNode(s, id, listenerName)]

\* lines 319-335
getPartitionReplicaEndpoints(s, tp, listenerName) ==
  LET info == getPartitionInfo(s, tp[1], tp[2])
  IN  IF info = None THEN EmptyMap
      ELSE [id \in {r \in Range(info[1].replicas) :
                      ~NodeIsEmpty(ReplicaNode(s, r, listenerName))} |->
              ReplicaNode(s, id, listenerName)]

\* a filter on the flag alone: the members are filtered whether or not asked
maybeFilterAliveReplicas_always(s, brokers, listenerName, filterUnavailableEndpoints) ==
  FilterSeq(brokers, {b \in Range(brokers) : hasAliveEndpoint(s, b, listenerName)})

\* a filter on aliveness alone: a member that is alive without the listener stays
maybeFilterAliveReplicas_aliveOnly(s, brokers, listenerName, filterUnavailableEndpoints) ==
  IF ~filterUnavailableEndpoints THEN brokers
  ELSE FilterSeq(brokers, {b \in Range(brokers) : b \in DOMAIN s.aliveNodes})

\* lines 135-149
maybeFilterAliveReplicas(s, brokers, listenerName, filterUnavailableEndpoints) ==
  IF ~filterUnavailableEndpoints THEN brokers
  ELSE FilterSeq(brokers, {b \in Range(brokers) : hasAliveEndpoint(s, b, listenerName)})

\* a leader that is alive without the listener gives LISTENER_NOT_FOUND whatever
\* errorUnavailableListeners says
PartitionMetadata_listenerAlways(s, partitionId, partitionState, listenerName, errorUnavailableEndpoints, errorUnavailableListeners) ==
  LET maybeLeader == getAliveEndpoint(s, partitionState.leader, listenerName)
      filteredReplicas == maybeFilterAliveReplicas(s, partitionState.replicas, listenerName,
                                                   errorUnavailableEndpoints)
      filteredIsr == maybeFilterAliveReplicas(s, partitionState.isr, listenerName,
                                              errorUnavailableEndpoints)
      error == IF maybeLeader = None
               THEN IF partitionState.leader \notin DOMAIN s.aliveBrokers
                    THEN "LEADER_NOT_AVAILABLE"
                    ELSE "LISTENER_NOT_FOUND"
               ELSE IF Len(filteredReplicas) < Len(partitionState.replicas)
                    THEN "REPLICA_NOT_AVAILABLE"
                    ELSE IF Len(filteredIsr) < Len(partitionState.isr)
                         THEN "REPLICA_NOT_AVAILABLE"
                         ELSE "NONE"
  IN  [errorCode |-> error,
       partitionIndex |-> partitionId,
       leaderId |-> IF maybeLeader = None THEN NO_LEADER_ID ELSE maybeLeader[1].id,
       leaderEpoch |-> partitionState.leaderEpoch,
       replicaNodes |-> filteredReplicas,
       isrNodes |-> filteredIsr,
       offlineReplicas |-> partitionState.offlineReplicas]

\* lines 157-212: the MetadataResponsePartition of one partition
PartitionMetadata(s, partitionId, partitionState, listenerName, errorUnavailableEndpoints, errorUnavailableListeners) ==
  LET maybeLeader == getAliveEndpoint(s, partitionState.leader, listenerName)
      filteredReplicas == maybeFilterAliveReplicas(s, partitionState.replicas, listenerName,
                                                   errorUnavailableEndpoints)
      filteredIsr == maybeFilterAliveReplicas(s, partitionState.isr, listenerName,
                                              errorUnavailableEndpoints)
      error == IF maybeLeader = None
               THEN IF partitionState.leader \notin DOMAIN s.aliveBrokers
                    THEN "LEADER_NOT_AVAILABLE"
                    ELSE IF errorUnavailableListeners THEN "LISTENER_NOT_FOUND"
                         ELSE "LEADER_NOT_AVAILABLE"
               ELSE IF Len(filteredReplicas) < Len(partitionState.replicas)
                    THEN "REPLICA_NOT_AVAILABLE"
                    ELSE IF Len(filteredIsr) < Len(partitionState.isr)
                         THEN "REPLICA_NOT_AVAILABLE"
                         ELSE "NONE"
  IN  [errorCode |-> error,
       partitionIndex |-> partitionId,
       leaderId |-> IF maybeLeader = None THEN NO_LEADER_ID ELSE maybeLeader[1].id,
       leaderEpoch |-> partitionState.leaderEpoch,
       replicaNodes |-> filteredReplicas,
       isrNodes |-> filteredIsr,
       offlineReplicas |-> partitionState.offlineReplicas]

\* lines 154-215
getPartitionMetadata(s, topic, listenerName, errorUnavailableEndpoints, errorUnavailableListeners) ==
  IF topic \in DOMAIN s.partitionStates
  THEN Some({PartitionMetadata(s, p, s.partitionStates[topic][p], listenerName,
                               errorUnavailableEndpoints, errorUnavailableListeners) :
               p \in DOMAIN s.partitionStates[topic]})
  ELSE None

\* an entry with no partitions for a requested topic the snapshot does not hold
getTopicMetadata_withMissing(s, topics, listenerName, errorUnavailableEndpoints, errorUnavailableListeners) ==
  {[errorCode |-> "NONE",
    name |-> topic,
    topicId |-> IF topic \in DOMAIN s.topicIds THEN s.topicIds[topic] ELSE ZERO_UUID,
    partitions |-> IF getPartitionMetadata(s, topic, listenerName, errorUnavailableEndpoints,
                                           errorUnavailableListeners) = None
                   THEN {}
                   ELSE getPartitionMetadata(s, topic, listenerName, errorUnavailableEndpoints,
                                             errorUnavailableListeners)[1]] :
     topic \in topics}

\* lines 237-252: one MetadataResponseTopic per requested topic of the snapshot
getTopicMetadata(s, topics, listenerName, errorUnavailableEndpoints, errorUnavailableListeners) ==
  {[errorCode |-> "NONE",
    name |-> topic,
    topicId |-> IF topic \in DOMAIN s.topicIds THEN s.topicIds[topic] ELSE ZERO_UUID,
    partitions |-> getPartitionMetadata(s, topic, listenerName, errorUnavailableEndpoints,
                                        errorUnavailableListeners)[1]] :
     topic \in {t \in topics :
                  getPartitionMetadata(s, t, listenerName, errorUnavailableEndpoints,
                                       errorUnavailableListeners) # None}}

\* lines 341-349: the nodes of the listener, and the node of an id that has none
ClusterNodes(s, listenerName) ==
  [id \in {i \in DOMAIN s.aliveNodes : listenerName \in DOMAIN s.aliveNodes[i]} |->
     s.aliveNodes[id][listenerName]]

ClusterNode(s, listenerName, id) ==
  IF id \in DOMAIN ClusterNodes(s, listenerName) THEN ClusterNodes(s, listenerName)[id]
  ELSE Node(id, "", -1, NoRack)

\* the partitions whose leader has no node of the listener left out
getClusterMetadata_dropUnreachable(s, clusterId, listenerName) ==
  LET node(id) == ClusterNode(s, listenerName, id)
      live == {tp \in getAllPartitions(s) :
                 /\ s.partitionStates[tp[1]][tp[2]].leader # LeaderDuringDelete
                 /\ s.partitionStates[tp[1]][tp[2]].leader \in DOMAIN ClusterNodes(s, listenerName)}
  IN  [clusterId |-> clusterId,
       nodes |-> {ClusterNodes(s, listenerName)[id] : id \in DOMAIN ClusterNodes(s, listenerName)},
       partitions |-> {LET state == s.partitionStates[tp[1]][tp[2]]
                       IN  [topic |-> tp[1], partition |-> tp[2],
                            leader |-> node(state.leader),
                            replicas |-> [i \in DOMAIN state.replicas |-> node(state.replicas[i])],
                            inSyncReplicas |-> [i \in DOMAIN state.isr |-> node(state.isr[i])],
                            offlineReplicas |-> [i \in DOMAIN state.offlineReplicas |->
                                                   node(state.offlineReplicas[i])]] :
                         tp \in live},
       controller |-> IF s.controllerId = None THEN None
                      ELSE Some(node(s.controllerId[1]))]

\* lines 339-365
getClusterMetadata(s, clusterId, listenerName) ==
  LET node(id) == ClusterNode(s, listenerName, id)
      live == {tp \in getAllPartitions(s) :
                 s.partitionStates[tp[1]][tp[2]].leader # LeaderDuringDelete}
  IN  [clusterId |-> clusterId,
       nodes |-> {ClusterNodes(s, listenerName)[id] : id \in DOMAIN ClusterNodes(s, listenerName)},
       partitions |-> {LET state == s.partitionStates[tp[1]][tp[2]]
                       IN  [topic |-> tp[1], partition |-> tp[2],
                            leader |-> node(state.leader),
                            replicas |-> [i \in DOMAIN state.replicas |-> node(state.replicas[i])],
                            inSyncReplicas |-> [i \in DOMAIN state.isr |-> node(state.isr[i])],
                            offlineReplicas |-> [i \in DOMAIN state.offlineReplicas |->
                                                   node(state.offlineReplicas[i])]] :
                         tp \in live},
       controller |-> IF s.controllerId = None THEN None
                      ELSE Some(node(s.controllerId[1]))]

----------------------------------------------------------------------------
(* The requests and queries that are issued                                *)

\* the longest partitionStates list of a request
MaxEntries == 2

B1plain == LiveBroker(1, <<EP("plain", "host1", 9092)>>, NoRack)
B1both == LiveBroker(1, <<EP("plain", "host1", 9092), EP("ssl", "host1", 9093)>>, "rackA")
B2plain == LiveBroker(2, <<EP("plain", "host2", 9092)>>, "rackB")

\* broker 3 is never alive; the ssl listener is missing on broker 2
AddOrders0a == PState("orders", 0, 1, 0, <<1>>, <<1>>, <<>>)
AddOrders0b == PState("orders", 0, 2, 1, <<1, 2>>, <<2>>, <<1>>)
AddOrders1 == PState("orders", 1, 2, 0, <<2, 3>>, <<2, 3>>, <<>>)
AddLogs0 == PState("logs", 0, 3, 5, <<3, 1>>, <<1>>, <<3>>)
Delete(t, p) == PState(t, p, LeaderDuringDelete, 0, <<>>, <<>>, <<>>)

Entries == {AddOrders0a, AddOrders0b, AddOrders1, AddLogs0,
            Delete("orders", 0), Delete("orders", 1)}

SeqsUpTo(S, n) == UNION {[1..k -> S] : k \in 0..n}

\* controller id, liveBrokers and topicStates of a request
Heads == {Request(1, 5, <<B1plain>>, <<TState("orders", ZERO_UUID)>>, <<>>),
          Request(-1, 3, <<>>, <<TState("orders", "idA")>>, <<>>),
          Request(2, 4, <<B1both, B2plain>>,
                  <<TState("orders", "idB"), TState("logs", ZERO_UUID)>>, <<>>)}

Requests == {[h EXCEPT !.partitionStates = ps] : h \in Heads, ps \in SeqsUpTo(Entries, MaxEntries)}

\* the requests with no entry that carries the delete sentinel
NoDeleteRequests ==
  {request \in Requests :
     \A i \in DOMAIN request.partitionStates :
       request.partitionStates[i].leader # LeaderDuringDelete}

\* the requests of the concurrent callers
ConcRequests ==
  {Request(1, 5, <<B1plain>>, <<>>, <<>>),
   Request(1, 5, <<B1plain>>, <<TState("orders", "idA")>>, <<AddOrders0a>>),
   Request(-1, 3, <<>>, <<>>, <<AddOrders1>>),
   Request(1, 4, <<B1plain>>, <<>>, <<Delete("orders", 0)>>)}

Query(op, topics, topic, partitionId, listenerName) ==
  [op |-> op, topics |-> topics, topic |-> topic, partitionId |-> partitionId,
   listenerName |-> listenerName]

Queries ==
  {Query("getTopicMetadata", Topics, "orders", 0, "plain"),
   Query("getPartitionLeaderEndpoint", {}, "orders", 0, "plain"),
   Query("getPartitionReplicaEndpoints", {}, "orders", 0, "plain"),
   Query("getClusterMetadata", {}, "orders", 0, "plain"),
   Query("getAllPartitions", {}, "orders", 0, "plain"),
   Query("getNonExistingTopics", Topics, "orders", 0, "plain"),
   Query("contains", {}, "orders", 0, "plain")}

\* no snapshot held
NoSnapshot == [partitionStates |-> 0, topicIds |-> EmptyMap, controllerId |-> None,
               aliveBrokers |-> EmptyMap, aliveNodes |-> EmptyMap]

\* what the query returns on the snapshot s
Eval(q, s) ==
  CASE q.op = "getTopicMetadata" -> getTopicMetadata(s, q.topics, q.listenerName, TRUE, TRUE)
    [] q.op = "getPartitionLeaderEndpoint" ->
         getPartitionLeaderEndpoint(s, q.topic, q.partitionId, q.listenerName)
    [] q.op = "getPartitionReplicaEndpoints" ->
         getPartitionReplicaEndpoints(s, TP(q.topic, q.partitionId), q.listenerName)
    [] q.op = "getClusterMetadata" -> getClusterMetadata(s, "cluster", q.listenerName)
    [] q.op = "getAllPartitions" -> getAllPartitions(s)
    [] q.op = "getNonExistingTopics" -> getNonExistingTopics(s, q.topics)
    [] q.op = "contains" -> contains(s, q.topic)

\* the fields of the snapshot a query reads, in the order of its code
FieldsRead(op) ==
  CASE op = "getTopicMetadata" -> <<"partitionStates", "aliveNodes", "aliveBrokers", "topicIds">>
    [] op = "getPartitionLeaderEndpoint" -> <<"partitionStates", "aliveNodes">>
    [] op = "getPartitionReplicaEndpoints" -> <<"partitionStates", "aliveBrokers">>
    [] op = "getClusterMetadata" -> <<"aliveNodes", "partitionStates", "controllerId">>
    [] op = "getAllPartitions" -> <<"partitionStates">>
    [] op = "getNonExistingTopics" -> <<"partitionStates">>
    [] op = "contains" -> <<"partitionStates">>

----------------------------------------------------------------------------
(* Snapshots and the initial state                                         *)

\* lines 467-471; partitionStates is a reference into maps
MetadataSnapshot(partitionStates, topicIds, controllerId, aliveBrokers, aliveNodes) ==
  [partitionStates |-> partitionStates, topicIds |-> topicIds, controllerId |-> controllerId,
   aliveBrokers |-> aliveBrokers, aliveNodes |-> aliveNodes]

\* the snapshot with its partitionStates read through the reference
ContentIn(snapshot, m) == [snapshot EXCEPT !.partitionStates = m[@]]
Content(snapshot) == ContentIn(snapshot, maps)

EmptyView == MetadataSnapshot(EmptyMap, EmptyMap, None, EmptyMap, EmptyMap)
NoRequest == Request(-1, 0, <<>>, <<>>, <<>>)

IdleWriter ==
  [pc |-> "idle", request |-> NoRequest, aliveBrokers |-> EmptyMap, aliveNodes |-> EmptyMap,
   controllerIdOpt |-> None, topicIds |-> EmptyMap, partitionStates |-> 0,
   deletedPartitions |-> <<>>, pre |-> EmptyView, preBy |-> NoWriter, repeat |-> 0,
   errorLogged |-> FALSE]

IdleReader ==
  [pc |-> "idle", query |-> Query("none", {}, "", 0, ""), snapshot |-> NoSnapshot,
   idx |-> 0, view |-> EmptyView, result |-> <<>>, captured |-> EmptyView,
   underLock |-> FALSE]

\* the partitionStates objects something still refers to
Roots(snapshot, r, w) ==
  {snapshot.partitionStates}
    \cup {r[x].snapshot.partitionStates : x \in {y \in Readers : r[y].pc # "idle"}}
    \cup {w[x].partitionStates : x \in {y \in Writers : w[y].partitionStates # 0}}

\* objects nothing refers to are reclaimed
Collect(m, roots) == [i \in MapIds |-> IF i \in roots THEN m[i] ELSE EmptyMap]

\* lines 125-126
Init ==
  /\ metadataSnapshot = MetadataSnapshot(1, EmptyMap, None, EmptyMap, EmptyMap)
  /\ maps = [i \in MapIds |-> EmptyMap]
  /\ lock = NoWriter
  /\ wr = [w \in Writers |-> IdleWriter]
  /\ rd = [r \in Readers |-> IdleReader]
  /\ pubContent = EmptyView
  /\ pubBy = NoWriter

----------------------------------------------------------------------------
(* updateMetadata                                                          *)

\* updateMetadata without inWriteLock
WriteLockFree_noLock == TRUE

\* line 369: inWriteLock(partitionMetadataLock) waits until no caller holds it
WriteLockFree == lock = NoWriter

\* lines 368-369: the call is made with one of the requests and takes the lock
WAcquire(w, requests) ==
  /\ wr[w].pc = "idle"
  /\ WriteLockFree
  /\ lock' = w
  /\ \E request \in requests :
       wr' = [wr EXCEPT ![w] = [IdleWriter EXCEPT !.pc = "merge", !.request = request,
                                                 !.pre = Content(metadataSnapshot),
                                                 !.preBy = pubBy]]
  /\ UNCHANGED <<metadataSnapshot, maps, rd, pubContent, pubBy>>

\* the caller makes the call with a request it will send again once the call has
\* returned (repeat 1: the first of the two calls)
WAcquireTwice(w, requests) ==
  /\ wr[w].pc = "idle"
  /\ WriteLockFree
  /\ lock' = w
  /\ \E request \in requests :
       wr' = [wr EXCEPT ![w] = [IdleWriter EXCEPT !.pc = "merge", !.request = request,
                                                 !.pre = Content(metadataSnapshot),
                                                 !.preBy = pubBy, !.repeat = 1]]
  /\ UNCHANGED <<metadataSnapshot, maps, rd, pubContent, pubBy>>

\* lines 368-369: the second of the two calls, with the request of the first
WCallAgain(w) ==
  /\ wr[w].pc = "again"
  /\ WriteLockFree
  /\ lock' = w
  /\ wr' = [wr EXCEPT ![w] = [IdleWriter EXCEPT !.pc = "merge", !.request = wr[w].request,
                                                !.pre = Content(metadataSnapshot),
                                                !.preBy = pubBy, !.repeat = 2]]
  /\ UNCHANGED <<metadataSnapshot, maps, rd, pubContent, pubBy>>

\* line 118: the id of the broker that owns the cache
brokerId == 1

\* lines 394-397: this broker is among the alive ones and another one has other
\* listeners than it
ListenersDiffer(aliveNodes) ==
  /\ brokerId \in DOMAIN aliveNodes
  /\ \E id \in DOMAIN aliveNodes : DOMAIN aliveNodes[id] # DOMAIN aliveNodes[brokerId]

\* a check that throws when the listeners differ
ListenerCheck_rejects(aliveNodes) ==
  [logged |-> ListenersDiffer(aliveNodes), completes |-> ~ListenersDiffer(aliveNodes)]

\* lines 394-398: when the listeners differ an error is logged, and the call goes on
ListenerCheck(aliveNodes) ==
  [logged |-> ListenersDiffer(aliveNodes), completes |-> TRUE]

\* the brokers of the request made visible before the partition states
SnapshotDuringMerge_aliveFirst(w) ==
  [metadataSnapshot EXCEPT !.aliveBrokers = BuildAliveBrokers(wr[w].request),
                           !.aliveNodes = BuildAliveNodes(wr[w].request)]

\* lines 371-441 build locals and never assign metadataSnapshot: the visible
\* snapshot stays the one of before the call
SnapshotDuringMerge(w) == metadataSnapshot

\* lines 371-441 run to the end once the lock is taken: the listener check is
\* their only test of the request, every other statement copies or assigns
MergeMayRun(w) ==
  /\ wr[w].pc = "merge"
  /\ ListenerCheck(BuildAliveNodes(wr[w].request)).completes

\* the merge applied to the object of the visible snapshot, without the copy
CopyTarget_inPlace == metadataSnapshot.partitionStates

\* line 412: the merge works on a new mutable.AnyRefMap
CopyTarget == Min(MapIds \ Roots(metadataSnapshot, rd, wr))

\* lines 371-441: aliveBrokers, aliveNodes, controllerIdOpt and topicIds, then the
\* partition states of the snapshot to publish
WMerge(w) ==
  /\ MergeMayRun(w)
  /\ LET request == wr[w].request
         built == [wr[w] EXCEPT !.pc = "publish",
                               !.errorLogged = ListenerCheck(BuildAliveNodes(request)).logged,
                               !.aliveBrokers = BuildAliveBrokers(request),
                               !.aliveNodes = BuildAliveNodes(request),
                               !.controllerIdOpt = ControllerIdOpt(request),
                               !.topicIds = MergeTopicIds(metadataSnapshot.topicIds, request)]
     IN  IF request.partitionStates = <<>>
         THEN \* line 409: the object of the previous snapshot, by reference
              /\ wr' = [wr EXCEPT ![w] = [built EXCEPT !.partitionStates =
                                                        metadataSnapshot.partitionStates]]
              /\ maps' = maps
         ELSE \* lines 412-441: copy every topic, then apply the entries to the copy
              LET target == CopyTarget
                  copy == maps[metadataSnapshot.partitionStates]
                  merged == ApplyStates([partitionStates |-> copy, topicIds |-> built.topicIds,
                                         deletedPartitions |-> <<>>],
                                        request.partitionStates)
              IN  /\ wr' = [wr EXCEPT ![w] = [built EXCEPT !.partitionStates = target,
                                                           !.topicIds = merged.topicIds,
                                                           !.deletedPartitions =
                                                             merged.deletedPartitions]]
                  /\ maps' = [maps EXCEPT ![target] = merged.partitionStates]
  /\ metadataSnapshot' = SnapshotDuringMerge(w)
  /\ UNCHANGED <<lock, rd, pubContent, pubBy>>

\* lines 409 and 443: the one write of the volatile reference
WPublish(w) ==
  /\ wr[w].pc = "publish"
  /\ metadataSnapshot' = MetadataSnapshot(wr[w].partitionStates, wr[w].topicIds,
                                          wr[w].controllerIdOpt, wr[w].aliveBrokers,
                                          wr[w].aliveNodes)
  /\ wr' = [wr EXCEPT ![w].pc = "release", ![w].partitionStates = 0]
  /\ maps' = Collect(maps, Roots(metadataSnapshot', rd, wr'))
  /\ pubContent' = ContentIn(metadataSnapshot', maps')
  /\ pubBy' = w
  /\ UNCHANGED <<lock, rd>>

\* lines 445-446: deletedPartitions is returned and the lock released; a caller
\* that sends its request twice is left about to call again
WRelease(w) ==
  /\ wr[w].pc = "release"
  /\ lock' = NoWriter
  /\ wr' = [wr EXCEPT ![w] = IF wr[w].repeat = 1
                             THEN [IdleWriter EXCEPT !.pc = "again", !.request = wr[w].request,
                                                     !.repeat = 1]
                             ELSE IdleWriter]
  /\ rd' = [r \in Readers |-> [rd[r] EXCEPT !.underLock = FALSE]]
  /\ UNCHANGED <<metadataSnapshot, maps, pubContent, pubBy>>

----------------------------------------------------------------------------
(* The queries                                                             *)

\* a query that reads the volatile var again for each field
SnapshotOf_reread(r) == metadataSnapshot

\* lines 241, 306, 320, 340: val snapshot = metadataSnapshot, read once; the query
\* reads the fields of that val
SnapshotOf(r) == rd[r].snapshot

\* a query under inReadLock(partitionMetadataLock)
QueryMayRun_inReadLock(r) == lock = NoWriter

\* lines 305-306 (and 241, 255, 259, 275, 320, 340, 450): the queries take no lock
QueryMayRun(r) == TRUE

\* lines 241, 306, 320, 340 (255, 259, 275, 450 for the one-field queries)
RBegin(r, q) ==
  /\ rd[r].pc = "idle"
  /\ QueryMayRun(r)
  /\ rd' = [rd EXCEPT ![r] = [IdleReader EXCEPT !.pc = "read", !.query = q,
                                                !.snapshot = metadataSnapshot, !.idx = 1,
                                                !.captured = pubContent,
                                                !.underLock = (lock # NoWriter)]]
  /\ UNCHANGED <<metadataSnapshot, maps, lock, wr, pubContent, pubBy>>

\* the query reads the next field it uses; after the last one it has its result
RRead(r) ==
  /\ rd[r].pc = "read"
  /\ QueryMayRun(r)
  /\ LET fields == FieldsRead(rd[r].query.op)
         field == fields[rd[r].idx]
         value == IF field = "partitionStates" THEN maps[SnapshotOf(r).partitionStates]
                  ELSE SnapshotOf(r)[field]
         view == [rd[r].view EXCEPT ![field] = value]
     IN  IF rd[r].idx < Len(fields)
         THEN rd' = [rd EXCEPT ![r].idx = @ + 1, ![r].view = view]
         ELSE rd' = [rd EXCEPT ![r].pc = "done", ![r].view = view,
                               ![r].result = Eval(rd[r].query, view)]
  /\ UNCHANGED <<metadataSnapshot, maps, lock, wr, pubContent, pubBy>>

\* the query returns; its snapshot is no longer referred to
RReturn(r) ==
  /\ rd[r].pc = "done"
  /\ rd' = [rd EXCEPT ![r] = IdleReader]
  /\ maps' = Collect(maps, Roots(metadataSnapshot, rd', wr))
  /\ UNCHANGED <<metadataSnapshot, lock, wr, pubContent, pubBy>>

----------------------------------------------------------------------------
(* Specifications                                                          *)

\* concurrent updateMetadata callers and a query caller
Next ==
  \/ \E w \in Writers : WAcquire(w, ConcRequests)
  \/ \E w \in Writers : WMerge(w)
  \/ \E w \in Writers : WPublish(w)
  \/ \E w \in Writers : WRelease(w)
  \/ \E r \in Readers, q \in Queries : RBegin(r, q)
  \/ \E r \in Readers : RRead(r)
  \/ \E r \in Readers : RReturn(r)

Spec == Init /\ [][Next]_vars

\* one updateMetadata caller, every request
NextMerge ==
  \/ WAcquire("w1", Requests)
  \/ WMerge("w1")
  \/ WPublish("w1")
  \/ WRelease("w1")

SpecMerge == Init /\ [][NextMerge]_vars

\* one updateMetadata caller that sends every request, and sends a request with
\* no deletion twice in a row
NextTwice ==
  \/ WAcquire("w1", Requests)
  \/ WAcquireTwice("w1", NoDeleteRequests)
  \/ WMerge("w1")
  \/ WPublish("w1")
  \/ WRelease("w1")
  \/ WCallAgain("w1")

SpecTwice == Init /\ [][NextTwice]_vars

----------------------------------------------------------------------------
(* updateMetadata run alone on the snapshot content s (lines 368-447):     *)
(* the snapshot it publishes and the list it returns                       *)

updateMetadata(s, request) ==
  LET merged == ApplyStates([partitionStates |-> s.partitionStates,
                             topicIds |-> MergeTopicIds(s.topicIds, request),
                             deletedPartitions |-> <<>>],
                            request.partitionStates)
  IN  [snapshot |-> MetadataSnapshot(merged.partitionStates, merged.topicIds,
                                     ControllerIdOpt(request), BuildAliveBrokers(request),
                                     BuildAliveNodes(request)),
       deletedPartitions |-> merged.deletedPartitions]

\* the content of the visible snapshot
Visible == Content(metadataSnapshot)

\* the callers whose updateMetadata has published and is about to return
Returning == {w \in Writers : wr[w].pc = "release"}

----------------------------------------------------------------------------
(* Concurrency                                                             *)

\* C1: the result of every query equals that query computed on the one snapshot
\* that was visible when the query read the reference, as that snapshot was
\* published; no update that runs during the query shows in the result
SnapshotAtomicity ==
  \A r \in Readers :
    rd[r].pc = "done" => rd[r].result = Eval(rd[r].query, rd[r].captured)

\* a query over several fields has finished after an update published during it,
\* and its result is not the one of the snapshot visible now
SnapshotAtomicityWitness ==
  \E r \in Readers :
    /\ rd[r].pc = "done"
    /\ rd[r].query.op = "getClusterMetadata"
    /\ rd[r].snapshot # metadataSnapshot
    /\ rd[r].result # Eval(rd[r].query, pubContent)

\* C2: the visible snapshot and every snapshot a query holds have the content
\* they were published with
SnapshotImmutability ==
  /\ Visible = pubContent
  /\ \A r \in Readers : rd[r].pc # "idle" => Content(rd[r].snapshot) = rd[r].captured

\* a query holds an old snapshot while later updates have changed the partitions,
\* and an update is in progress on a copy
SnapshotImmutabilityWitness ==
  \E r \in Readers, w \in Writers :
    /\ rd[r].pc # "idle"
    /\ rd[r].snapshot.partitionStates # metadataSnapshot.partitionStates
    /\ rd[r].captured.partitionStates # pubContent.partitionStates
    /\ rd[r].captured.partitionStates # EmptyMap
    /\ wr[w].pc = "publish"
    /\ wr[w].partitionStates \notin {rd[r].snapshot.partitionStates,
                                    metadataSnapshot.partitionStates}

\* C3: at most one updateMetadata is between taking and releasing the lock, and
\* each one publishes what the whole call gives on the snapshot visible just
\* before its publication; so the visible snapshot is always the result of the
\* requests applied one after another in the order of publication
WriterSerialization ==
  /\ [](Cardinality({w \in Writers : wr[w].pc # "idle"}) <= 1)
  /\ [][\A w \in Writers :
          (wr[w].pc = "publish" /\ wr'[w].pc = "release") =>
             ContentIn(metadataSnapshot', maps') =
               updateMetadata(Visible, wr[w].request).snapshot]_vars

\* a caller has merged on top of the snapshot another caller published: the
\* partitions of both are visible
WriterSerializationWitness ==
  \E w \in Returning :
    /\ wr[w].preBy \notin {w, NoWriter}
    /\ wr[w].pre.partitionStates # EmptyMap
    /\ wr[w].request.partitionStates # <<>>
    /\ getAllPartitions(wr[w].pre) \subseteq getAllPartitions(Visible)
    /\ getAllPartitions(wr[w].pre) # getAllPartitions(Visible)

----------------------------------------------------------------------------
(* The merge; w is a caller about to return, wr[w].pre the content of the  *)
(* snapshot before its call, Visible the snapshot it published             *)

\* the entries of the list that name the partition
EntriesOf(states, tp) ==
  {i \in DOMAIN states : TP(states[i].topicName, states[i].partitionIndex) = tp}

\* the partitions of the entries that carry the delete sentinel, in list order
RECURSIVE DeleteEntries(_)
DeleteEntries(states) ==
  IF states = <<>> THEN <<>>
  ELSE IF Head(states).leader = LeaderDuringDelete
       THEN <<TP(Head(states).topicName, Head(states).partitionIndex)>> \o DeleteEntries(Tail(states))
       ELSE DeleteEntries(Tail(states))

\* C5: after an update with an empty partitionStates list, getAllPartitions and
\* getAllTopics are those of before, and getAliveBrokers is exactly the brokers
\* of the request
LivenessOnlyUpdate ==
  \A w \in Returning :
    wr[w].request.partitionStates = <<>> =>
      /\ getAllPartitions(Visible) = getAllPartitions(wr[w].pre)
      /\ getAllTopics(Visible) = getAllTopics(wr[w].pre)
      /\ {b.id : b \in getAliveBrokers(Visible)} = {b.id : b \in Range(wr[w].request.liveBrokers)}
      /\ getAliveBrokers(Visible) = {MetadataBroker(Broker(b)) : b \in Range(wr[w].request.liveBrokers)}

\* a liveness-only update on a cache with partitions, where a broker alive
\* before is not in the request
LivenessOnlyUpdateWitness ==
  \E w \in Returning :
    /\ wr[w].request.partitionStates = <<>>
    /\ wr[w].request.liveBrokers # <<>>
    /\ getAllPartitions(wr[w].pre) # {}
    /\ \E id \in DOMAIN wr[w].pre.aliveBrokers : id \notin DOMAIN Visible.aliveBrokers

DeletionEmptiesTopic ==
  \A w \in Returning, t \in Topics, p \in Partitions :
    (/\ wr[w].request.partitionStates = <<Delete(t, p)>>
     /\ contains(wr[w].pre, t)
     /\ DOMAIN wr[w].pre.partitionStates[t] = {p})
      => /\ ~contains(Visible, t)
         /\ t \notin getAllTopics(Visible)
         /\ wr[w].deletedPartitions = <<TP(t, p)>>

\* the only partition of a topic has been deleted while another topic stays
DeletionEmptiesTopicWitness ==
  \E w \in Returning, t \in Topics, p \in Partitions :
    /\ wr[w].request.partitionStates = <<Delete(t, p)>>
    /\ contains(wr[w].pre, t)
    /\ DOMAIN wr[w].pre.partitionStates[t] = {p}
    /\ getAllTopics(Visible) # {}

\* C8 as claimed: every returned partition is absent from the published snapshot
DeletedAreAbsent ==
  \A w \in Returning :
    \A i \in DOMAIN wr[w].deletedPartitions :
      ~containsPartition(Visible, wr[w].deletedPartitions[i])

\* C8 amended: a returned partition is absent from the published snapshot
\* exactly when the last entry of the request that names it carries the
\* delete sentinel; one that a later entry adds again is returned and present
DeletedAreAbsentUnlessAddedAgain ==
  \A w \in Returning :
    \A i \in DOMAIN wr[w].deletedPartitions :
      LET tp == wr[w].deletedPartitions[i]
          states == wr[w].request.partitionStates
          last == states[Max(EntriesOf(states, tp))]
      IN  containsPartition(Visible, tp) <=> last.leader # LeaderDuringDelete

\* a partition of the cache named by two entries, the last one a deletion, is
\* returned and gone while the topic stays
DeletedAreAbsentWitness ==
  \E w \in Returning :
    \E i \in DOMAIN wr[w].deletedPartitions :
      LET tp == wr[w].deletedPartitions[i]
      IN  /\ Cardinality(EntriesOf(wr[w].request.partitionStates, tp)) = 2
          /\ containsPartition(wr[w].pre, tp)
          /\ ~containsPartition(Visible, tp)
          /\ contains(Visible, tp[1])

\* C9 as claimed: every returned partition was in the snapshot before the call,
\* none is returned twice, and nothing is returned when no partition was removed
ReturnsOnlyRemoved ==
  \A w \in Returning :
    LET ret == wr[w].deletedPartitions
    IN  /\ \A i \in DOMAIN ret : containsPartition(wr[w].pre, ret[i])
        /\ \A i, j \in DOMAIN ret : ret[i] = ret[j] => i = j
        /\ getAllPartitions(wr[w].pre) \subseteq getAllPartitions(Visible) => ret = <<>>

\* C9 amended: the call returns the partition of every entry that carries the
\* delete sentinel, once per entry and in list order, whether or not the cache
\* held it; it returns nothing exactly when no entry carries the sentinel
ReturnsDeleteEntries ==
  \A w \in Returning :
    /\ wr[w].deletedPartitions = DeleteEntries(wr[w].request.partitionStates)
    /\ wr[w].deletedPartitions = <<>> <=>
         \A i \in DOMAIN wr[w].request.partitionStates :
           wr[w].request.partitionStates[i].leader # LeaderDuringDelete

\* a deletion of a partition the cache does not hold is returned, next to one
\* the cache holds
ReturnsDeleteEntriesWitness ==
  \E w \in Returning :
    /\ \E i \in DOMAIN wr[w].deletedPartitions :
         ~containsPartition(wr[w].pre, wr[w].deletedPartitions[i])
    /\ \E i \in DOMAIN wr[w].deletedPartitions :
         containsPartition(wr[w].pre, wr[w].deletedPartitions[i])

\* the leader of the partition has no endpoint of the listener in aliveNodes
LeaderUnreachable(s, tp, l) ==
  LET leader == s.partitionStates[tp[1]][tp[2]].leader
  IN  leader \notin DOMAIN s.aliveNodes \/ l \notin DOMAIN s.aliveNodes[leader]

\* C10: getPartitionLeaderEndpoint is None exactly for a partition not in the
\* snapshot, Some(noNode) exactly for a partition whose leader is not alive or
\* lacks the listener, and otherwise the node of the leader with the host and
\* port of its endpoint of that listener
LeaderEndpointThreeWay ==
  \A t \in Topics, p \in Partitions, l \in ListenerNames :
    LET res == getPartitionLeaderEndpoint(Visible, t, p, l)
        present == TP(t, p) \in getAllPartitions(Visible)
        unreachable == IF present THEN LeaderUnreachable(Visible, TP(t, p), l) ELSE FALSE
    IN  /\ res = None <=> ~present
        /\ res = Some(NoNode) <=> (present /\ unreachable)
        /\ (present /\ ~unreachable) =>
             LET leader == Visible.partitionStates[t][p].leader
                 eps == Visible.aliveBrokers[leader].endPoints
             IN  \E i \in DOMAIN eps :
                   /\ eps[i].listener = l
                   /\ res = Some(Node(leader, eps[i].host, eps[i].port, NoRack))

\* one snapshot with an unknown partition, a partition whose leader is not
\* alive, one whose leader lacks the listener and one that resolves
LeaderEndpointThreeWayWitness ==
  /\ \E t \in Topics, p \in Partitions :
       getPartitionLeaderEndpoint(Visible, t, p, "plain") = None
  /\ \E tp \in getAllPartitions(Visible) :
       Visible.partitionStates[tp[1]][tp[2]].leader \notin DOMAIN Visible.aliveNodes
  /\ \E tp \in getAllPartitions(Visible) :
       /\ Visible.partitionStates[tp[1]][tp[2]].leader \in DOMAIN Visible.aliveNodes
       /\ LeaderUnreachable(Visible, tp, "ssl")
       /\ getPartitionLeaderEndpoint(Visible, tp[1], tp[2], "ssl") = Some(NoNode)
  /\ \E tp \in getAllPartitions(Visible) :
       getPartitionLeaderEndpoint(Visible, tp[1], tp[2], "ssl") \notin {None, Some(NoNode)}

----------------------------------------------------------------------------
(* getTopicMetadata on the visible snapshot                                *)

\* no updateMetadata is in progress; every snapshot that is ever visible is
\* visible in such a state, from the return of the call that published it on
Settled == \A w \in Writers : wr[w].pc = "idle"

\* the entry of the partition in the answer for its topic
PartitionEntry(s, tp, l, errorUnavailableEndpoints, errorUnavailableListeners) ==
  LET topicEntry == CHOOSE e \in getTopicMetadata(s, {tp[1]}, l, errorUnavailableEndpoints,
                                                  errorUnavailableListeners) : e.name = tp[1]
  IN  CHOOSE m \in topicEntry.partitions : m.partitionIndex = tp[2]

\* the brokers that are alive with an endpoint of the listener
Reachable(s, l) == {id \in DOMAIN s.aliveNodes : l \in DOMAIN s.aliveNodes[id]}

ReplicaErrorWhenFiltered ==
  Settled => \A tp \in getAllPartitions(Visible), l \in ListenerNames :
    \A errorUnavailableListeners \in BOOLEAN :
      LET state == Visible.partitionStates[tp[1]][tp[2]]
          m == PartitionEntry(Visible, tp, l, TRUE, errorUnavailableListeners)
          listed == Range(state.replicas) \cup Range(state.isr)
      IN  /\ state.leader \in Reachable(Visible, l) =>
               /\ m.leaderId = state.leader
               /\ m.errorCode = "REPLICA_NOT_AVAILABLE" <=>
                    \E b \in listed : b \notin Reachable(Visible, l)
               /\ m.errorCode = "NONE" <=> listed \subseteq Reachable(Visible, l)
          /\ m.replicaNodes = FilterSeq(state.replicas, Reachable(Visible, l))
          /\ m.isrNodes = FilterSeq(state.isr, Reachable(Visible, l))

\* one snapshot with a resolved leader and a replica that is not alive, and a
\* resolved leader whose replicas are all reachable
ReplicaErrorWhenFilteredWitness ==
  /\ Settled
  /\ \E tp \in getAllPartitions(Visible) :
       LET state == Visible.partitionStates[tp[1]][tp[2]]
           m == PartitionEntry(Visible, tp, "plain", TRUE, TRUE)
       IN  /\ state.leader \in Reachable(Visible, "plain")
           /\ m.errorCode = "REPLICA_NOT_AVAILABLE"
           /\ m.replicaNodes # <<>>
           /\ Len(m.replicaNodes) < Len(state.replicas)
  /\ \E tp \in getAllPartitions(Visible) :
       LET state == Visible.partitionStates[tp[1]][tp[2]]
           m == PartitionEntry(Visible, tp, "plain", TRUE, TRUE)
       IN  /\ state.leader \in Reachable(Visible, "plain")
           /\ m.errorCode = "NONE"
           /\ Len(m.replicaNodes) = 2

\* C13 as claimed: with errorUnavailableEndpoints not set, the lists returned
\* hold no member without an alive endpoint of the listener, and the error of a
\* resolved leader is NONE
UnreachableDroppedWhenUnfiltered ==
  Settled => \A tp \in getAllPartitions(Visible), l \in ListenerNames :
    \A errorUnavailableListeners \in BOOLEAN :
      LET state == Visible.partitionStates[tp[1]][tp[2]]
          m == PartitionEntry(Visible, tp, l, FALSE, errorUnavailableListeners)
      IN  /\ Range(m.replicaNodes) \subseteq Reachable(Visible, l)
          /\ Range(m.isrNodes) \subseteq Reachable(Visible, l)
          /\ state.leader \in Reachable(Visible, l) => m.errorCode = "NONE"

\* C13 amended: with errorUnavailableEndpoints not set, the replica and ISR
\* lists are returned as the snapshot holds them, members without an alive
\* endpoint of the listener included, and the error of a resolved leader is NONE
UnreachableKeptWhenUnfiltered ==
  Settled => \A tp \in getAllPartitions(Visible), l \in ListenerNames :
    \A errorUnavailableListeners \in BOOLEAN :
      LET state == Visible.partitionStates[tp[1]][tp[2]]
          m == PartitionEntry(Visible, tp, l, FALSE, errorUnavailableListeners)
      IN  /\ m.replicaNodes = state.replicas
          /\ m.isrNodes = state.isr
          /\ state.leader \in Reachable(Visible, l) => m.errorCode = "NONE"

\* a partition with a resolved leader, a replica that is not alive and an ISR
\* member that is not alive, answered without the flag
UnreachableKeptWhenUnfilteredWitness ==
  Settled /\ \E tp \in getAllPartitions(Visible) :
    LET state == Visible.partitionStates[tp[1]][tp[2]]
        m == PartitionEntry(Visible, tp, "plain", FALSE, TRUE)
    IN  /\ state.leader \in Reachable(Visible, "plain")
        /\ \E b \in Range(state.replicas) : b \notin DOMAIN Visible.aliveNodes
        /\ \E b \in Range(state.isr) : b \notin DOMAIN Visible.aliveNodes
        /\ m.errorCode = "NONE"

\* C14: the answer has one entry for each requested topic of the snapshot and
\* none for a requested topic the snapshot does not hold; an entry lists the
\* partitions the snapshot holds for the topic, once each; the requested topics
\* without entry are getNonExistingTopics of the request
OneEntryPerPresentTopic ==
  Settled => \A topics \in SUBSET Topics, l \in ListenerNames :
    \A errorUnavailableEndpoints, errorUnavailableListeners \in BOOLEAN :
      LET res == getTopicMetadata(Visible, topics, l, errorUnavailableEndpoints,
                                  errorUnavailableListeners)
      IN  /\ \A t \in topics :
               Cardinality({e \in res : e.name = t}) =
                 IF t \in DOMAIN Visible.partitionStates THEN 1 ELSE 0
          /\ \A e \in res :
               /\ e.name \in topics
               /\ {m.partitionIndex : m \in e.partitions} =
                    DOMAIN Visible.partitionStates[e.name]
               /\ Cardinality(e.partitions) =
                    Cardinality(DOMAIN Visible.partitionStates[e.name])
          /\ topics \ {e.name : e \in res} = getNonExistingTopics(Visible, topics)

\* two topics are requested: the snapshot holds one, with two partitions, and
\* not the other
OneEntryPerPresentTopicWitness ==
  Settled /\ \E t \in Topics :
    LET res == getTopicMetadata(Visible, Topics, "plain", TRUE, TRUE)
    IN  /\ {e.name : e \in res} = {t}
        /\ \E e \in res : Cardinality(e.partitions) = 2
        /\ getNonExistingTopics(Visible, Topics) = Topics \ {t}

----------------------------------------------------------------------------
(* The merge, continued                                                    *)

\* the callers about to return from the second of two calls with one request
ReturningAgain == {w \in Returning : wr[w].repeat = 2}

\* C15: when a request with no deletion is applied twice in a row, the snapshot
\* published by the second call has the content (partition states, topic ids,
\* controller id, alive brokers and nodes) of the one published by the first
IdempotentReapplication ==
  \A w \in ReturningAgain :
    (\A i \in DOMAIN wr[w].request.partitionStates :
       wr[w].request.partitionStates[i].leader # LeaderDuringDelete)
      => /\ Visible = wr[w].pre
         /\ wr[w].deletedPartitions = <<>>

\* a request that names a partition twice, brings topic ids and brokers, has
\* been applied twice on a cache that held other partitions and brokers
IdempotentReapplicationWitness ==
  \E w \in ReturningAgain :
    /\ Len(wr[w].request.partitionStates) = 2
    /\ wr[w].request.partitionStates[1].partitionIndex = wr[w].request.partitionStates[2].partitionIndex
    /\ wr[w].request.partitionStates[1] # wr[w].request.partitionStates[2]
    /\ wr[w].request.topicStates # <<>>
    /\ wr[w].request.liveBrokers # <<>>
    /\ \E tp \in getAllPartitions(Visible) :
         \A i \in DOMAIN wr[w].request.partitionStates :
           TP(wr[w].request.partitionStates[i].topicName,
              wr[w].request.partitionStates[i].partitionIndex) # tp

----------------------------------------------------------------------------
(* getPartitionReplicaEndpoints and getClusterMetadata on the visible      *)
(* snapshot                                                                *)

\* C16: the keys of getPartitionReplicaEndpoints are the replicas of the
\* partition that are alive and have an endpoint of the listener, each mapped
\* to the node of that endpoint; the other replicas are not keys, and a
\* partition the snapshot does not hold gives the empty map
ReplicaEndpointsOfAlive ==
  Settled => \A t \in Topics, p \in Partitions, l \in ListenerNames :
    LET res == getPartitionReplicaEndpoints(Visible, TP(t, p), l)
    IN  IF TP(t, p) \in getAllPartitions(Visible)
        THEN LET replicas == Range(Visible.partitionStates[t][p].replicas)
             IN  /\ DOMAIN res =
                      {r \in replicas :
                         /\ r \in DOMAIN Visible.aliveBrokers
                         /\ \E i \in DOMAIN Visible.aliveBrokers[r].endPoints :
                              Visible.aliveBrokers[r].endPoints[i].listener = l}
                 /\ \A r \in DOMAIN res :
                      \E i \in DOMAIN Visible.aliveBrokers[r].endPoints :
                        LET ep == Visible.aliveBrokers[r].endPoints[i]
                        IN  /\ ep.listener = l
                            /\ res[r].id = r
                            /\ res[r].host = ep.host
                            /\ res[r].port = ep.port
        ELSE res = EmptyMap

\* one snapshot with a partition of which one replica has the listener and one
\* is alive without it, a partition with a replica that is not alive, and a
\* partition it does not hold
ReplicaEndpointsOfAliveWitness ==
  /\ Settled
  /\ \E tp \in getAllPartitions(Visible) :
       LET replicas == Range(Visible.partitionStates[tp[1]][tp[2]].replicas)
           res == getPartitionReplicaEndpoints(Visible, tp, "ssl")
       IN  /\ DOMAIN res # {}
           /\ \E r \in replicas \ DOMAIN res : r \in DOMAIN Visible.aliveBrokers
  /\ \E tp \in getAllPartitions(Visible) :
       LET replicas == Range(Visible.partitionStates[tp[1]][tp[2]].replicas)
           res == getPartitionReplicaEndpoints(Visible, tp, "plain")
       IN  /\ DOMAIN res # {}
           /\ \E r \in replicas \ DOMAIN res : r \notin DOMAIN Visible.aliveBrokers
  /\ \E t \in Topics, p \in Partitions : TP(t, p) \notin getAllPartitions(Visible)

\* C17: the nodes of getClusterMetadata are the alive nodes that have an
\* endpoint of the listener; its partitions are the partitions of the snapshot
\* whose leader is not the delete sentinel, one entry each, those with an
\* unreachable leader included; its controller is a node exactly when the
\* snapshot has a controller id
ClusterOfOneSnapshot ==
  Settled => \A l \in ListenerNames :
    LET res == getClusterMetadata(Visible, "cluster", l)
        listed == {TP(pi.topic, pi.partition) : pi \in res.partitions}
    IN  /\ res.nodes = {Visible.aliveNodes[id][l] : id \in Reachable(Visible, l)}
        /\ listed = {tp \in getAllPartitions(Visible) :
                       Visible.partitionStates[tp[1]][tp[2]].leader # LeaderDuringDelete}
        /\ Cardinality(res.partitions) = Cardinality(listed)
        /\ \A tp \in getAllPartitions(Visible) :
             Visible.partitionStates[tp[1]][tp[2]].leader \notin Reachable(Visible, l)
               => tp \in listed
        /\ \A pi \in res.partitions :
             pi.leader.id = Visible.partitionStates[pi.topic][pi.partition].leader
        /\ res.controller # None <=> Visible.controllerId # None
        /\ res.controller # None => res.controller[1].id = Visible.controllerId[1]

\* one snapshot with a controller, a node of the listener, a broker alive
\* without the listener, a partition whose leader is not alive and one whose
\* leader is alive without the listener
ClusterOfOneSnapshotWitness ==
  /\ Settled
  /\ LET res == getClusterMetadata(Visible, "cluster", "ssl")
     IN  /\ res.controller # None
         /\ res.nodes # {}
         /\ DOMAIN Visible.aliveNodes # Reachable(Visible, "ssl")
         /\ \E pi \in res.partitions : pi.leader.id \notin DOMAIN Visible.aliveNodes
         /\ \E pi \in res.partitions :
              pi.leader.id \in DOMAIN Visible.aliveNodes \ Reachable(Visible, "ssl")

----------------------------------------------------------------------------
(* The merge, further                                                      *)

\* C18: a call that has taken the lock can always take its next step (the merge
\* by its enabling condition MergeMayRun, the rest of WMerge being assignments),
\* whatever the request, also when the brokers of the request have other listeners than
\* this broker; the snapshot it publishes has the brokers of the request with
\* their listeners and, for every partition the request names, the state of the
\* last entry that names it (none when that entry is a deletion); it returns a
\* list of partitions
UpdateNeverRejects ==
  \A w \in Writers :
    /\ wr[w].pc = "merge" => MergeMayRun(w)
    /\ wr[w].pc = "publish" => ENABLED WPublish(w)
    /\ wr[w].pc = "release" =>
         LET request == wr[w].request
             states == request.partitionStates
         IN  /\ ENABLED WRelease(w)
             /\ DOMAIN Visible.aliveNodes = {b.id : b \in Range(request.liveBrokers)}
             /\ \A b \in Range(request.liveBrokers) :
                  DOMAIN Visible.aliveNodes[b.id] =
                    {b.endpoints[i].listener : i \in DOMAIN b.endpoints}
             /\ \A i \in DOMAIN states :
                  LET tp == TP(states[i].topicName, states[i].partitionIndex)
                      last == states[Max(EntriesOf(states, tp))]
                  IN  IF last.leader = LeaderDuringDelete
                      THEN ~containsPartition(Visible, tp)
                      ELSE getPartitionInfo(Visible, tp[1], tp[2]) = Some(last)
             /\ wr[w].deletedPartitions \in Seq(Topics \X Partitions)

\* a call whose request has brokers with other listeners than this broker has
\* logged the error, published partitions of the request and is returning a
\* deletion
UpdateNeverRejectsWitness ==
  \E w \in Returning :
    /\ wr[w].errorLogged
    /\ ListenersDiffer(Visible.aliveNodes)
    /\ wr[w].deletedPartitions # <<>>
    /\ \E i \in DOMAIN wr[w].request.partitionStates :
         getPartitionInfo(Visible, wr[w].request.partitionStates[i].topicName,
                          wr[w].request.partitionStates[i].partitionIndex) =
           Some(wr[w].request.partitionStates[i])

\* the working state of the merge after the first k entries of the request, on
\* the snapshot content pre
Working(pre, request, k) ==
  ApplyStates([partitionStates |-> pre.partitionStates,
               topicIds |-> MergeTopicIds(pre.topicIds, request),
               deletedPartitions |-> <<>>],
              SubSeq(request.partitionStates, 1, k))

\* the entries of the request that remove the last partition of the topic
EmptiedAt(pre, request, t) ==
  {k \in DOMAIN request.partitionStates :
     /\ t \in DOMAIN Working(pre, request, k - 1).partitionStates
     /\ t \notin DOMAIN Working(pre, request, k).partitionStates}

\* C19 as claimed: every topic of the published partition states has a
\* partition; and when the update removes the last partition of a topic, the
\* published topicIds has no entry for the topic, and the published partition
\* states do not show the topic either when it had an id to lose
NoHalfDeletedTopic ==
  /\ \A t \in DOMAIN Visible.partitionStates : DOMAIN Visible.partitionStates[t] # {}
  /\ \A w \in Returning, t \in Topics :
       EmptiedAt(wr[w].pre, wr[w].request, t) # {} =>
         /\ t \notin DOMAIN Visible.topicIds
         /\ t \in DOMAIN MergeTopicIds(wr[w].pre.topicIds, wr[w].request)
              => t \notin DOMAIN Visible.partitionStates

\* C19 amended: every topic of the published partition states has a partition;
\* and when the update removes the last partition of a topic, the published
\* topicIds has no entry for the topic, and the published partition states show
\* the topic exactly when a later entry of the request adds a partition of it
TopicAndIdRemovedTogether ==
  /\ \A t \in DOMAIN Visible.partitionStates : DOMAIN Visible.partitionStates[t] # {}
  /\ \A w \in Returning, t \in Topics :
       LET states == wr[w].request.partitionStates
           emptied == EmptiedAt(wr[w].pre, wr[w].request, t)
       IN  emptied # {} =>
             /\ t \notin DOMAIN Visible.topicIds
             /\ t \in DOMAIN Visible.partitionStates <=>
                  \E j \in DOMAIN states :
                    /\ j > Max(emptied)
                    /\ states[j].topicName = t
                    /\ states[j].leader # LeaderDuringDelete

\* an update has removed the last partition of a topic that had an id, while
\* another topic stays: the topic is in neither mapping
TopicAndIdRemovedTogetherWitness ==
  \E w \in Returning, t \in Topics :
    /\ EmptiedAt(wr[w].pre, wr[w].request, t) # {}
    /\ t \in DOMAIN wr[w].pre.topicIds
    /\ t \notin DOMAIN Visible.partitionStates
    /\ t \notin DOMAIN Visible.topicIds
    /\ Visible.partitionStates # EmptyMap

\* C20: after an update with a non-empty partitionStates list, every partition
\* of the snapshot before the call that no entry of the request names is in the
\* published snapshot with the state it had (leader, leader epoch, replicas,
\* ISR, offline replicas)
UnnamedPartitionsUnchanged ==
  \A w \in Returning :
    wr[w].request.partitionStates # <<>> =>
      \A tp \in getAllPartitions(wr[w].pre) :
        EntriesOf(wr[w].request.partitionStates, tp) = {} =>
          /\ containsPartition(Visible, tp)
          /\ getPartitionInfo(Visible, tp[1], tp[2]) = getPartitionInfo(wr[w].pre, tp[1], tp[2])

\* an update has added a partition and deleted another, and a third partition
\* that it does not name, of a topic that it does name, is as before
UnnamedPartitionsUnchangedWitness ==
  \E w \in Returning :
    /\ wr[w].deletedPartitions # <<>>
    /\ getAllPartitions(Visible) \ getAllPartitions(wr[w].pre) # {}
    /\ getAllPartitions(wr[w].pre) \ getAllPartitions(Visible) # {}
    /\ \E tp \in getAllPartitions(wr[w].pre) :
         /\ EntriesOf(wr[w].request.partitionStates, tp) = {}
         /\ \E i \in DOMAIN wr[w].request.partitionStates :
              wr[w].request.partitionStates[i].topicName = tp[1]

----------------------------------------------------------------------------
(* The merge: order of the entries, controller id, topic ids, leader epoch *)

\* C21: for every partition that several entries of the request name, the
\* published snapshot has the state of the last of them: no state when that
\* entry carries the delete sentinel, the state of that entry otherwise,
\* whatever the earlier entries were
LastEntryWins ==
  \A w \in Returning :
    LET states == wr[w].request.partitionStates
    IN  \A i \in DOMAIN states :
          LET tp == TP(states[i].topicName, states[i].partitionIndex)
              named == EntriesOf(states, tp)
              last == states[Max(named)]
          IN  Cardinality(named) > 1 =>
                /\ last.leader = LeaderDuringDelete => getPartitionInfo(Visible, tp[1], tp[2]) = None
                /\ last.leader # LeaderDuringDelete =>
                     getPartitionInfo(Visible, tp[1], tp[2]) = Some(last)

\* a request [add, delete] of a partition the cache did not hold has left it
\* absent
LastEntryWinsWitness ==
  \E w \in Returning :
    LET states == wr[w].request.partitionStates
    IN  /\ Len(states) = 2
        /\ TP(states[1].topicName, states[1].partitionIndex) =
             TP(states[2].topicName, states[2].partitionIndex)
        /\ states[1].leader # LeaderDuringDelete
        /\ states[2].leader = LeaderDuringDelete
        /\ ~containsPartition(wr[w].pre, TP(states[1].topicName, states[1].partitionIndex))
        /\ ~containsPartition(Visible, TP(states[1].topicName, states[1].partitionIndex))

\* the controller epochs of the requests that leave the controller c
EpochsOf(c) == {h.controllerEpoch : h \in {r \in Heads : ControllerIdOpt(r) = c}}

\* C22: after every call, with or without partition states, getControllerId is
\* None when the controller id of the request is negative and that id
\* otherwise, whatever the controller was before and whatever the controller
\* epoch of the request
ControllerLastWriterWins ==
  \A w \in Returning :
    getControllerId(Visible) =
      IF wr[w].request.controllerId < 0 THEN None ELSE Some(wr[w].request.controllerId)

\* a request with partition states and a lower controller epoch than the
\* request that left the controller known before has set another controller
ControllerLastWriterWinsWitness ==
  \E w \in Returning :
    /\ wr[w].pre.controllerId # None
    /\ wr[w].request.controllerId >= 0
    /\ getControllerId(Visible) # wr[w].pre.controllerId
    /\ wr[w].request.partitionStates # <<>>
    /\ \A e \in EpochsOf(wr[w].pre.controllerId) : wr[w].request.controllerEpoch < e

\* the id that getTopicMetadata reports for the topic (line 247)
IdOf(s, t) == IF t \in DOMAIN s.topicIds THEN s.topicIds[t] ELSE ZERO_UUID

\* the topic states of the request that name the topic
Associations(request, t) ==
  {i \in DOMAIN request.topicStates : request.topicStates[i].topicName = t}

\* C23 as claimed: for a topic that this update does not empty, a topic state
\* of the request makes its id the id of the topic, in place of an older one,
\* and a topic the request has no topic state for keeps the id it had
TopicIdsMergedWithOverride ==
  \A w \in Returning, t \in Topics :
    LET request == wr[w].request
        listed == Associations(request, t)
    IN  EmptiedAt(wr[w].pre, request, t) = {} =>
          /\ listed # {} => IdOf(Visible, t) = request.topicStates[Max(listed)].topicId
          /\ (listed = {} /\ t \in DOMAIN wr[w].pre.topicIds) =>
               /\ t \in DOMAIN Visible.topicIds
               /\ Visible.topicIds[t] = wr[w].pre.topicIds[t]

\* C23 amended: for a topic that this update does not empty, a topic state of
\* the request with a non-zero id makes that id the id of the topic, in place
\* of an older one; a topic for which the request has no topic state, or only
\* topic states with the zero id, keeps the id it had or stays without id; a
\* topic that this update empties has no id
TopicIdsMergedNonZero ==
  \A w \in Returning, t \in Topics :
    LET request == wr[w].request
        nonZero == {i \in Associations(request, t) : request.topicStates[i].topicId # ZERO_UUID}
    IN  IF EmptiedAt(wr[w].pre, request, t) = {}
        THEN /\ nonZero # {} =>
                  /\ t \in DOMAIN Visible.topicIds
                  /\ Visible.topicIds[t] = request.topicStates[Max(nonZero)].topicId
             /\ nonZero = {} =>
                  /\ t \in DOMAIN Visible.topicIds <=> t \in DOMAIN wr[w].pre.topicIds
                  /\ IdOf(Visible, t) = IdOf(wr[w].pre, t)
        ELSE t \notin DOMAIN Visible.topicIds

\* a request with the zero id for a topic has left the id the topic had, and
\* the topic is in the published snapshot
TopicIdsMergedNonZeroWitness ==
  \E w \in Returning, t \in Topics :
    /\ \E i \in Associations(wr[w].request, t) : wr[w].request.topicStates[i].topicId = ZERO_UUID
    /\ t \in DOMAIN wr[w].pre.topicIds
    /\ t \in DOMAIN Visible.topicIds
    /\ Visible.topicIds[t] = wr[w].pre.topicIds[t]
    /\ wr[w].request.partitionStates # <<>>
    /\ contains(Visible, t)

----------------------------------------------------------------------------
(* Publication                                                             *)

\* the snapshot content the call of w publishes
Published(w) == updateMetadata(wr[w].pre, wr[w].request).snapshot

\* C24: a call changes the visible snapshot in one step, its publication, after
\* the merge: until then the visible snapshot is the one of before the call,
\* from then on the one the whole call gives; and a query that starts during
\* the call holds one of these two, never a third
SinglePublication ==
  /\ [](\A w \in Writers :
          /\ wr[w].pc \in {"merge", "publish"} => Visible = wr[w].pre
          /\ wr[w].pc = "release" => Visible = Published(w)
          /\ \A r \in Readers :
               (lock = w /\ rd[r].pc # "idle" /\ rd[r].underLock) =>
                 Content(rd[r].snapshot) \in {wr[w].pre, Published(w)})
  /\ [][metadataSnapshot' # metadataSnapshot =>
          \E w \in Writers : wr[w].pc = "publish" /\ wr'[w].pc = "release"]_vars

\* a query that started during a call holds the snapshot of before the call
\* while the call has published another one, with other partitions and brokers
SinglePublicationWitness ==
  \E w \in Returning, r \in Readers :
    /\ rd[r].pc # "idle"
    /\ rd[r].underLock
    /\ Content(rd[r].snapshot) = wr[w].pre
    /\ wr[w].pre.partitionStates # Visible.partitionStates
    /\ wr[w].pre.aliveNodes # Visible.aliveNodes

----------------------------------------------------------------------------
(* Leader epoch, topic id of a topic added again, delete sentinel, brokers *)

\* the leader epoch getPartitionInfo reports for a partition of the snapshot
EpochOf(s, tp) == getPartitionInfo(s, tp[1], tp[2])[1].leaderEpoch

\* C25 as claimed: for every partition in the snapshot before a call and in the
\* snapshot the call publishes, the leader epoch reported by getPartitionInfo
\* is not lower after the call than before
LeaderEpochNeverDecreases ==
  \A w \in Returning :
    \A tp \in getAllPartitions(wr[w].pre) \cap getAllPartitions(Visible) :
      EpochOf(Visible, tp) >= EpochOf(wr[w].pre, tp)

\* C25 amended: the leader epoch reported for a partition after a call is the
\* leader epoch of the last entry of the request that names the partition,
\* lower than the one reported before or not, and the one reported before when
\* no entry names it
LeaderEpochOfLastEntry ==
  \A w \in Returning :
    \A tp \in getAllPartitions(Visible) :
      LET states == wr[w].request.partitionStates
          named == EntriesOf(states, tp)
      IN  IF named # {}
          THEN EpochOf(Visible, tp) = states[Max(named)].leaderEpoch
          ELSE /\ tp \in getAllPartitions(wr[w].pre)
               /\ EpochOf(Visible, tp) = EpochOf(wr[w].pre, tp)

\* a request with one entry for a partition of the cache, with a lower leader
\* epoch, and no deletion: the epoch reported is the lower one
LeaderEpochOfLastEntryWitness ==
  \E w \in Returning :
    \E tp \in getAllPartitions(wr[w].pre) \cap getAllPartitions(Visible) :
      /\ EpochOf(Visible, tp) < EpochOf(wr[w].pre, tp)
      /\ Cardinality(EntriesOf(wr[w].request.partitionStates, tp)) = 1
      /\ wr[w].deletedPartitions = <<>>

\* the id in the entry of the topic in the answer of getTopicMetadata
ReportedId(s, t) ==
  (CHOOSE e \in getTopicMetadata(s, {t}, "plain", FALSE, FALSE) : e.name = t).topicId

\* C26 as claimed: when the request has a non-zero id for a topic and the
\* published snapshot holds the topic, topicIds maps the topic to that id and
\* getTopicMetadata reports it, also when the request deletes the last
\* partition of the topic and adds a partition of it in a later entry
SuppliedIdIsReported ==
  \A w \in Returning, t \in Topics :
    LET request == wr[w].request
        nonZero == {i \in Associations(request, t) : request.topicStates[i].topicId # ZERO_UUID}
    IN  (nonZero # {} /\ contains(Visible, t)) =>
          /\ t \in DOMAIN Visible.topicIds
          /\ ReportedId(Visible, t) = request.topicStates[Max(nonZero)].topicId

\* C26 amended: when the request has a non-zero id for a topic and the published
\* snapshot holds the topic, topicIds maps the topic to that id and
\* getTopicMetadata reports it, unless an entry of the request removed the last
\* partition of the topic: then the topic, added again by a later entry, has no
\* entry in topicIds and getTopicMetadata reports the zero id
SuppliedIdUnlessEmptied ==
  \A w \in Returning, t \in Topics :
    LET request == wr[w].request
        nonZero == {i \in Associations(request, t) : request.topicStates[i].topicId # ZERO_UUID}
    IN  (nonZero # {} /\ contains(Visible, t)) =>
          IF EmptiedAt(wr[w].pre, request, t) = {}
          THEN /\ t \in DOMAIN Visible.topicIds
               /\ ReportedId(Visible, t) = request.topicStates[Max(nonZero)].topicId
          ELSE /\ t \notin DOMAIN Visible.topicIds
               /\ ReportedId(Visible, t) = ZERO_UUID

\* a request with a non-zero id for a topic has deleted the last partition of
\* the topic and added a partition of it again: the topic is published, without
\* id, although it had one before the call
SuppliedIdUnlessEmptiedWitness ==
  \E w \in Returning, t \in Topics :
    /\ t \in DOMAIN NewTopicIds(wr[w].request)
    /\ t \in DOMAIN wr[w].pre.topicIds
    /\ EmptiedAt(wr[w].pre, wr[w].request, t) # {}
    /\ contains(Visible, t)
    /\ t \notin DOMAIN Visible.topicIds
    /\ ReportedId(Visible, t) = ZERO_UUID

\* C27: no partition of a visible snapshot has the delete sentinel as leader; so
\* the filter of getClusterMetadata leaves no partition out: the partitions of
\* the cluster view are getAllPartitions
NoSentinelLeader ==
  /\ \A tp \in getAllPartitions(Visible) :
       Visible.partitionStates[tp[1]][tp[2]].leader # LeaderDuringDelete
  /\ Settled => \A l \in ListenerNames :
       LET res == getClusterMetadata(Visible, "cluster", l)
       IN  /\ {TP(pi.topic, pi.partition) : pi \in res.partitions} = getAllPartitions(Visible)
           /\ Cardinality(res.partitions) = Cardinality(getAllPartitions(Visible))

\* a call has applied an entry with the delete sentinel for a partition of the
\* cache and one for a partition the cache did not hold, and partitions remain
NoSentinelLeaderWitness ==
  \E w \in Returning :
    /\ \E i \in DOMAIN wr[w].deletedPartitions :
         containsPartition(wr[w].pre, wr[w].deletedPartitions[i])
    /\ \E i \in DOMAIN wr[w].deletedPartitions :
         ~containsPartition(wr[w].pre, wr[w].deletedPartitions[i])
    /\ getAllPartitions(Visible) # {}
    /\ {TP(pi.topic, pi.partition) :
          pi \in getClusterMetadata(Visible, "cluster", "plain").partitions} =
         getAllPartitions(Visible)

\* the broker ids of the snapshot: the alive ones and the replicas
NamedBrokers(s) ==
  DOMAIN s.aliveBrokers \cup
    UNION {Range(s.partitionStates[tp[1]][tp[2]].replicas) : tp \in getAllPartitions(s)}

\* C28: in every visible snapshot aliveBrokers and aliveNodes have the same
\* broker ids, and for each of them the same listeners with the same host and
\* port; so the tests on aliveBrokers (error codes, replica endpoints) and on
\* aliveNodes (leader endpoint, replica filter) agree on which broker is alive
\* and which has a listener
AliveBrokersAgreeWithNodes ==
  /\ DOMAIN Visible.aliveBrokers = DOMAIN Visible.aliveNodes
  /\ \A id \in DOMAIN Visible.aliveBrokers :
       LET eps == Visible.aliveBrokers[id].endPoints
       IN  /\ DOMAIN Visible.aliveNodes[id] = {eps[i].listener : i \in DOMAIN eps}
           /\ \A i \in DOMAIN eps :
                LET node == Visible.aliveNodes[id][eps[i].listener]
                IN  /\ node.id = id
                    /\ node.host = eps[i].host
                    /\ node.port = eps[i].port
  /\ \A id \in NamedBrokers(Visible), l \in ListenerNames :
       hasAliveEndpoint(Visible, id, l) <=> ~NodeIsEmpty(ReplicaNode(Visible, id, l))

\* a snapshot with a broker of two listeners, a broker of one, and a broker id
\* that a partition names and that is not alive
AliveBrokersAgreeWithNodesWitness ==
  /\ \E id \in DOMAIN Visible.aliveNodes : Cardinality(DOMAIN Visible.aliveNodes[id]) = 2
  /\ \E id \in DOMAIN Visible.aliveNodes : Cardinality(DOMAIN Visible.aliveNodes[id]) = 1
  /\ \E tp \in getAllPartitions(Visible) :
       \E b \in Range(Visible.partitionStates[tp[1]][tp[2]].replicas) :
         b \notin DOMAIN Visible.aliveBrokers

====
